---- MODULE Spec2Model ----
(***************************************************************************)
(* A model of ydn.db.WebSql (src/js/ydn/db/websql.js): the deferred        *)
(* wrapper that maps a document store onto a Web SQL database.             *)
(*                                                                         *)
(* The program state is the database (one table per store), the queue of   *)
(* physical transactions requested through db.transaction with the        *)
(* statements submitted to each, the logical operations issued by the     *)
(* caller (each owning one goog.async.Deferred and the closure variables   *)
(* of its statement callbacks), and the tx field of the scope tokens.      *)
(***************************************************************************)
EXTENDS Integers, Sequences, FiniteSets, TLC

VARIABLES
  tables,   \* store name -> [exists, rows]: the tables of the database
  txs,      \* the physical transactions requested so far, in request order
  ops,      \* the logical operations (API calls) issued so far, each with its deferred
  tokens,   \* token -> id of the transaction in its tx field (0: no tx field)
  keygen,   \* the catalog's surrogate key counter
  asserts,  \* whether goog.asserts is enabled in this build
  schema    \* store name -> the names in the index list of the store's schema

vars == <<tables, txs, ops, tokens, keygen, asserts, schema>>

-----------------------------------------------------------------------------
(* Bounds of the model *)

MaxCalls == 2      \* top-level API calls issued by the caller
MaxKeygen == 4     \* surrogate keys the catalog hands out
MaxMigrations == 2 \* constructions of ydn.db.WebSql over the database

-----------------------------------------------------------------------------
(* JavaScript values.  Every value carries its type; numbers are kept as   *)
(* their decimal text so that coercions between text and number are        *)
(* conversions and not the identity.                                      *)

Undef == [t |-> "undef", v |-> ""]
Null == [t |-> "null", v |-> ""]
NaN == [t |-> "num", v |-> "NaN"]
S(x) == [t |-> "str", v |-> x]
N(x) == [t |-> "num", v |-> x]

NumTexts == <<"1", "2", "3", "4", "5", "6", "7", "8", "9">>

\* the decimal text of a number, and the texts that parse as a number
NumText(i) == NumTexts[i]
Digits == {NumTexts[i] : i \in 1..Len(NumTexts)}

\* String(x), the coercion applied when a key is bound as text
ToStr(x) ==
  CASE x.t = "str" -> x
    [] x.t = "num" -> S(x.v)
    [] x.t = "null" -> S("null")
    [] OTHER -> S("undefined")

\* parseInt(x, 10) / parseFloat(x) on the values of the model
ParseNum(x) ==
  CASE x.t = "num" -> x
    [] x.t = "str" /\ x.v \in Digits -> N(x.v)
    [] OTHER -> NaN

IsDef(x) == x # Undef

-----------------------------------------------------------------------------
(* The schema catalog: two stores, one with a declared key path and one    *)
(* keyed by the surrogate key column.                                      *)

Stores == {"note", "log"}
UnknownStore == "nope"
StoreNames == Stores \cup {UnknownStore}

HasStore(s) == s \in Stores

\* table.keyPath: the record field used as primary key, Undef when none
KeyPath(s) == IF s = "note" THEN S("id") ELSE Undef

\* table.getQuotedKeyPath(): falsy for a store without key path
GetQuotedKeyPath(s) == KeyPath(s)

DEFAULT_KEY_COLUMN == S("_ROWID_")

\* table.indexes without the payload column: name, affinity, uniqueness
Indexes(s) ==
  IF s = "note"
    THEN <<[name |-> "tag", type |-> "TEXT", unique |-> FALSE],
           [name |-> "n", type |-> "INTEGER", unique |-> TRUE]>>
    ELSE <<[name |-> "tag", type |-> "TEXT", unique |-> FALSE]>>

IndexNames(s) == {Indexes(s)[i].name : i \in 1..Len(Indexes(s))}

Fields == {"id", "tag", "n", "body"}

\* A record is a function from field names to values, Undef for an absent field
Rec(id, tag, n, body) == [id |-> id, tag |-> tag, n |-> n, body |-> body]

NoRec == Rec(Undef, Undef, Undef, Undef)

-----------------------------------------------------------------------------
(* Record codec *)

\* ydn.json.stringify followed by ydn.json.parse: JSON has no NaN
JsonRoundTrip(obj) == [f \in Fields |-> IF obj[f] = NaN THEN Null ELSE obj[f]]

\* What SQLite stores in a column of the given affinity
Affinity(type, x) ==
  CASE type = "TEXT" /\ x.t = "num" -> S(x.v)
    [] type = "INTEGER" /\ x.t = "str" /\ x.v \in Digits -> N(x.v)
    [] OTHER -> x

\* The primary key column: TEXT for a key path, INTEGER for the surrogate key
KeyColumnType(s) == IF IsDef(KeyPath(s)) THEN "TEXT" ELSE "INTEGER"

\* schema.generateKey(): the next surrogate key, given the counter
GenerateKey(counter) == N(NumText(counter + 1))

\* Whether table.getIndexedValues has to generate a key for obj
NeedsKey(s, obj) == ~IsDef(KeyPath(s)) \/ ~IsDef(obj.id)

\* table.getIndexedValues(obj): the key, and the value bound to each column
\* (Null for a column that is left out of the statement)
GetIndexedValues(s, obj, counter) ==
  LET key == IF NeedsKey(s, obj) THEN GenerateKey(counter) ELSE ToStr(obj.id)
      col(name) == IF name \in IndexNames(s) /\ IsDef(obj[name]) THEN obj[name]
                   ELSE IF name \in IndexNames(s) THEN Null ELSE Undef
  IN [key |-> key, tag |-> col("tag"), n |-> col("n"), blob |-> JsonRoundTrip(obj)]

IndexType(s, name) ==
  LET i == CHOOSE j \in 1..Len(Indexes(s)) : Indexes(s)[j].name = name
  IN Indexes(s)[i].type

\* The row a statement INSERT OR REPLACE ... VALUES (out.values) leaves in the table
StoredRow(s, out) ==
  LET col(name) == IF name \in IndexNames(s)
                     THEN Affinity(IndexType(s, name), out[name]) ELSE Undef
  IN [key |-> Affinity(KeyColumnType(s), out.key),
      tag |-> col("tag"), n |-> col("n"), blob |-> out.blob]

\* table.setKey(value, key)
SetKey(s, value, key) ==
  IF IsDef(KeyPath(s)) THEN [value EXCEPT !.id = key] ELSE value

RECURSIVE OverlayIndexes(_, _, _, _)
\* the loop of parseRow over table.indexes, from index j on
OverlayIndexes(s, row, value, j) ==
  IF j > Len(Indexes(s)) THEN value
  ELSE LET index == Indexes(s)[j]
           x == row[index.name]
           y == IF index.type \in {"INTEGER", "FLOAT"} THEN ParseNum(x) ELSE x
       IN IF ~IsDef(x) THEN OverlayIndexes(s, row, value, j + 1)
          ELSE OverlayIndexes(s, row, [value EXCEPT ![index.name] = y], j + 1)

\* parseRow(table, row): threw when goog.asserts.assertString(key) fails
ParseRow(s, row, assertsOn) ==
  LET key == IF IsDef(KeyPath(s)) THEN row.key ELSE Undef
  IN IF assertsOn /\ key.t # "str"
       THEN [threw |-> TRUE, value |-> NoRec]
       ELSE [threw |-> FALSE,
             value |-> OverlayIndexes(s, row, SetKey(s, row.blob, key), 1)]

-----------------------------------------------------------------------------
(* The database: the rows of a table are kept in rowid order *)

RECURSIVE SelectRows(_, _, _)
\* the rows of a sequence other than those in the set drop, in order
SelectRows(rows, drop, j) ==
  IF j > Len(rows) THEN <<>>
  ELSE IF rows[j] \in drop THEN SelectRows(rows, drop, j + 1)
       ELSE <<rows[j]>> \o SelectRows(rows, drop, j + 1)

RowSet(rows) == {rows[j] : j \in 1..Len(rows)}

\* rows that INSERT OR REPLACE deletes: same primary key, or the same non-null
\* value in a UNIQUE column
Conflicting(s, rows, row) ==
  {r \in RowSet(rows) :
     \/ r.key = row.key
     \/ \E i \in 1..Len(Indexes(s)) :
          /\ Indexes(s)[i].unique
          /\ row[Indexes(s)[i].name] # Null
          /\ r[Indexes(s)[i].name] = row[Indexes(s)[i].name]}

\* an insert that deletes no row
InsertOnly(s, rows, row) == rows \o <<row>>

\* INSERT OR REPLACE INTO table
InsertOrReplace(s, rows, row) ==
  SelectRows(rows, Conflicting(s, rows, row), 1) \o <<row>>

\* SELECT * FROM table WHERE key column = key
RowsWithKey(s, rows, key) ==
  SelectRows(rows, {r \in RowSet(rows) : r.key # Affinity(KeyColumnType(s), key)}, 1)

-----------------------------------------------------------------------------
(* Logical operations and their deferreds *)

Tokens == {"k1", "k2"}

NoOut == [key |-> Undef, tag |-> Undef, n |-> Undef, blob |-> NoRec]

\* fetch(q, limit) without a limit argument
NoLimit == 0 - 1

\* A query descriptor: the store and the continue, filter, map and reduce
\* functions ("none": not a function)
Query(store, continue, filter, map, reduce) ==
  [store |-> store, continue |-> continue, filter |-> filter, map |-> map,
   reduce |-> reduce]

NoQuery == Query("", "none", "none", "none", "none")

\* A logical operation: the arguments of the call, what the call returned
\* ("df": a deferred, "undefined", "threw": an exception), the state of its
\* goog.async.Deferred and the closure variables of executePut_; for a fetch
\* the query and the limit, and for the value a deferred resolved with other
\* than keys and records: the count, the accumulator, the rows scanned
NewOp(api, store, objs, isArray, key, toks, script, tx, parent) ==
  [api |-> api, store |-> store, objs |-> objs, isArray |-> isArray, key |-> key,
   toks |-> toks, script |-> script, tx |-> tx, parent |-> parent,
   ret |-> "df", nstmt |-> 0, assoc |-> "none",
   state |-> "pending", kind |-> "none", keys |-> <<>>, recs |-> <<>>, err |-> 0,
   fires |-> 0, arr_result |-> <<>>, has_error |-> FALSE,
   q |-> NoQuery, limit |-> NoLimit, count |-> 0, acc |-> Undef, scanned |-> 0]

HasFired(op) == op.state # "pending"

\* a deferred that takes the result of every call of callback or errback
FireAgain(op, state, kind, keys, recs, err) ==
  [op EXCEPT !.state = state, !.kind = kind, !.keys = keys, !.recs = recs,
             !.err = err, !.fires = @ + 1]

\* goog.async.Deferred callback/errback: a deferred that has fired throws
\* AlreadyCalledError and keeps its result
Fire(op, state, kind, keys, recs, err) ==
  IF HasFired(op) THEN [op EXCEPT !.fires = @ + 1]
  ELSE [op EXCEPT !.state = state, !.kind = kind, !.keys = keys, !.recs = recs,
                  !.err = err, !.fires = @ + 1]

\* the error value of new Error('Table ... not found.')
TableNotFound == 0 - 1

\* df.addBoth(function() { delete key.tx }) of runInTransaction: runs when the
\* deferred of a runInTransaction call fires
RunCleanup(op, wasFired, tok) ==
  IF op.api = "run" /\ ~wasFired /\ HasFired(op)
    THEN [k \in Tokens |-> IF k \in op.toks THEN 0 ELSE tok[k]]
    ELSE tok

\* A statement handed to tx.executeSql, with the arguments bound to its callbacks
Stmt(op, kind, store, out, key, item, last) ==
  [op |-> op, kind |-> kind, store |-> store, out |-> out, key |-> key,
   item |-> item, last |-> last, res |-> "queued"]

\* tx.executeSql(...) can be called on tx only while a callback of tx is running:
\* cur is the transaction whose callback is running (0: none)
ExecuteSqlAllowed(tx, cur) == tx # 0 /\ tx = cur

RECURSIVE KeysGenerated(_, _, _)
\* how many of the first i items of arr make getIndexedValues generate a key
KeysGenerated(s, arr, i) ==
  IF i = 0 THEN 0
  ELSE KeysGenerated(s, arr, i - 1) + (IF NeedsKey(s, arr[i]) THEN 1 ELSE 0)

\* the statements the loop of executePut_ submits for arr
PutStmts(opid, s, arr, counter) ==
  [i \in 1..Len(arr) |->
     Stmt(opid, "upsert", s,
          GetIndexedValues(s, arr[i], counter + KeysGenerated(s, arr, i - 1)),
          Undef, i, i = Len(arr))]

\* executePut_(tx, df, store_name, obj), called while the callback of cur runs:
\* the operation afterwards, the statements submitted, the key counter, and
\* whether the call threw
ExecutePut_(op, opid, tx, cur, counter) ==
  IF ~HasStore(op.store)
    THEN [op |-> Fire(op, "rejected", "error", <<>>, <<>>, TableNotFound),
          stmts |-> <<>>, counter |-> counter, threw |-> FALSE]
  ELSE IF op.objs = <<>>
    THEN [op |-> op, stmts |-> <<>>, counter |-> counter, threw |-> FALSE]
  ELSE IF ~ExecuteSqlAllowed(tx, cur)
    THEN [op |-> [op EXCEPT !.ret = "threw"], stmts |-> <<>>,
          counter |-> counter + KeysGenerated(op.store, op.objs, 1), threw |-> TRUE]
  ELSE [op |-> [op EXCEPT !.nstmt = Len(op.objs)],
        stmts |-> PutStmts(opid, op.store, op.objs, counter),
        counter |-> counter + KeysGenerated(op.store, op.objs, Len(op.objs)),
        threw |-> FALSE]

\* executeGet_(t, d, arg1, key)
ExecuteGet_(op, opid, tx, cur, counter) ==
  IF ~HasStore(op.store)
    THEN [op |-> [Fire(op, "rejected", "error", <<>>, <<>>, TableNotFound)
                    EXCEPT !.ret = "threw"],
          stmts |-> <<>>, counter |-> counter, threw |-> TRUE]
  ELSE IF ~ExecuteSqlAllowed(tx, cur)
    THEN [op |-> [op EXCEPT !.ret = "threw"], stmts |-> <<>>,
          counter |-> counter, threw |-> TRUE]
  ELSE LET kind == IF ~IsDef(op.key) THEN "select"
                   ELSE IF IsDef(GetQuotedKeyPath(op.store)) THEN "selectKey"
                   ELSE "selectUndefinedColumn"
       IN [op |-> [op EXCEPT !.nstmt = 1],
           stmts |-> <<Stmt(opid, kind, op.store, NoOut, op.key, 1, TRUE)>>,
           counter |-> counter, threw |-> FALSE]

\* clearInTransaction(tx, store, id): the function body is empty
ClearInTransaction(op, opid, tx, cur, counter) ==
  [op |-> [op EXCEPT !.ret = "undefined"], stmts |-> <<>>, counter |-> counter,
   threw |-> FALSE]

\* The statement that the transaction callback of clear_, count, deleteRow_,
\* dropTable_ or fetch submits
StmtKind(op) ==
  CASE op.api = "clear" -> IF IsDef(op.key) THEN "deleteKey" ELSE "delete"
    [] op.api = "count" -> "count"
    [] op.api = "deleteRow" ->
         IF IsDef(GetQuotedKeyPath(op.store)) THEN "deleteRow"
         ELSE "deleteRowUndefinedColumn"
    [] op.api = "dropTable" -> "drop"
    [] op.api = "dropAll" -> "dropAll"
    [] OTHER -> "fetch"

\* function(t) { t.executeSql(sql, arg, callback, error_callback) }: the
\* transaction callback of clear_, count, deleteRow_, dropTable_ and fetch
ExecuteOne(op, opid, counter) ==
  [op |-> [op EXCEPT !.nstmt = 1],
   stmts |-> <<Stmt(opid, StmtKind(op), op.store, NoOut, op.key, 1, TRUE)>>,
   counter |-> counter, threw |-> FALSE]

-----------------------------------------------------------------------------
(* Per-token entry points and operationFn *)

\* A per-token call made by the caller: which entry point, the token whose tx
\* field is passed as the transaction, and the store, value and key arguments
TokenCall(kind, tok, store, objs, isArray, key) ==
  [kind |-> kind, tok |-> tok, store |-> store, objs |-> objs, isArray |-> isArray,
   key |-> key]

\* What the tx field passed to a per-token call is at the time of the call:
\* absent, the transaction of a scope that is running, or a finished one
Association(tx, cur) ==
  IF tx = 0 THEN "none"
  ELSE IF tx = cur \/ txs[tx].state = "open" THEN "active" ELSE "stale"

\* getInTransaction / putInTransaction / clearInTransaction (tx, store, ...)
PerTokenCall(c, opid, tx, cur, counter, parent) ==
  LET op == [NewOp(c.kind, c.store, c.objs, c.isArray, c.key, {c.tok}, <<>>, tx,
                   parent) EXCEPT !.assoc = Association(tx, cur)]
  IN CASE c.kind = "getInTransaction" -> ExecuteGet_(op, opid, tx, cur, counter)
       [] c.kind = "putInTransaction" -> ExecutePut_(op, opid, tx, cur, counter)
       [] OTHER -> ClearInTransaction(op, opid, tx, cur, counter)

RECURSIVE RunScript(_, _, _, _, _, _)
\* trFn(): the per-token calls of operationFn from call j on, made while the
\* callback of transaction cur runs; an exception ends operationFn
RunScript(script, j, acc, tok, cur, parent) ==
  IF j > Len(script) \/ acc.threw THEN acc
  ELSE LET r == PerTokenCall(script[j], Len(acc.ops) + 1, tok[script[j].tok], cur,
                             acc.counter, parent)
       IN RunScript(script, j + 1,
                    [ops |-> Append(acc.ops, r.op), stmts |-> acc.stmts \o r.stmts,
                     counter |-> r.counter, threw |-> r.threw],
                    tok, cur, parent)

-----------------------------------------------------------------------------
(* Physical transactions *)

\* db.transaction(callback): a transaction requested from the backend for
\* operation op (0: migrate)
NewTx(op) ==
  [op |-> op, state |-> "queued", stmts |-> <<>>, pos |-> 0, threw |-> FALSE,
   snap |-> <<>>]

StoreOrder == <<"note", "log">>

TableOf(rows) == [exists |-> TRUE, rows |-> rows]
NoTable == [exists |-> FALSE, rows |-> <<>>]

OpenTxs == {t \in 1..Len(txs) : txs[t].state = "open"}
QueuedTxs == {t \in 1..Len(txs) : txs[t].state = "queued"}
FinishedTx(t) == txs[t].state \in {"committed", "rolledback"}

TopCalls == Cardinality({i \in 1..Len(ops) : ops[i].parent = 0})

\* keys that getIndexedValues generates for a put of objs into store s
Demand(s, objs) == IF HasStore(s) THEN KeysGenerated(s, objs, Len(objs)) ELSE 0

RECURSIVE ScriptDemand(_, _)
ScriptDemand(script, j) ==
  IF j = 0 THEN 0
  ELSE ScriptDemand(script, j - 1) + Demand(script[j].store, script[j].objs)

RECURSIVE QueuedDemand(_)
\* keys that the transactions not yet begun, up to t, will ask the catalog for
QueuedDemand(t) ==
  IF t = 0 THEN 0
  ELSE QueuedDemand(t - 1) +
       (IF txs[t].state = "queued" /\ txs[t].op # 0
          THEN Demand(ops[txs[t].op].store, ops[txs[t].op].objs) +
               ScriptDemand(ops[txs[t].op].script, Len(ops[txs[t].op].script))
          ELSE 0)

\* the key counter stays within the bound of the model
KeysAvailable(extra) == keygen + QueuedDemand(Len(txs)) + extra <= MaxKeygen

DEFAULT_BLOB_COLUMN == "_default_"

\* schema.hasIndex(name) and schema.addIndex(name) on an index list
HasIndex(idx, name) == \E j \in 1..Len(idx) : idx[j] = name
AddIndex(idx, name) == Append(idx, name)

\* the names of the indexes the catalog declares for a store
DeclaredIndexes(s) == [j \in 1..Len(Indexes(s)) |-> Indexes(s)[j].name]

\* preparing the create statement with the payload column added unguarded
PrepareAlways(s, idx) == AddIndex(idx, DEFAULT_BLOB_COLUMN)

\* prepareCreateTable(schema): the index list of the store afterwards; the
\* statement itself is the create statement of the store
PrepareCreateTable(s, idx) ==
  IF ~HasIndex(idx, DEFAULT_BLOB_COLUMN) THEN AddIndex(idx, DEFAULT_BLOB_COLUMN)
  ELSE idx

\* this.db.version, the database being opened with the empty version and
\* its version never changed, and this.schema.version
DbVersion == S("")
SchemaVersion == N("1")

\* this.db.version != this.schema.version: a text is compared to a number
\* by its numeric value, which is 0 for the empty text
VersionDiffers(a, b) ==
  LET num(x) == IF x.t = "str" /\ x.v = "" THEN N("0") ELSE ParseNum(x)
  IN IF a.t = b.t THEN a # b ELSE num(a) # num(b)

\* the transactions of migrate
Migrations == {t \in 1..Len(txs) : txs[t].op = 0}

\* new ydn.db.WebSql(dbname, schema) once more over the same database and
\* catalog: migrate prepares the create statement of every store and
\* requests a transaction for them
Construct ==
  /\ Cardinality(Migrations) < MaxMigrations
  /\ VersionDiffers(DbVersion, SchemaVersion)
  /\ schema' = [s \in Stores |-> PrepareCreateTable(s, schema[s])]
  /\ txs' = Append(txs, NewTx(0))
  /\ UNCHANGED <<tables, ops, tokens, keygen, asserts>>

Init ==
  /\ schema = [s \in Stores |-> PrepareCreateTable(s, DeclaredIndexes(s))]
  /\ tables = [s \in Stores |-> NoTable]
  /\ txs = <<NewTx(0)>>
  /\ ops = <<>>
  /\ tokens = [k \in Tokens |-> 0]
  /\ keygen = 0
  /\ asserts \in BOOLEAN

\* put(store_name, obj)
Put(s, objs, isArray) ==
  /\ TopCalls < MaxCalls
  /\ KeysAvailable(Demand(s, objs))
  /\ ops' = Append(ops, NewOp("put", s, objs, isArray, Undef, {}, <<>>,
                              Len(txs) + 1, 0))
  /\ txs' = Append(txs, NewTx(Len(ops) + 1))
  /\ UNCHANGED <<tables, tokens, keygen, asserts, schema>>

\* get(arg1, key) with a store name
Get(s, key) ==
  /\ TopCalls < MaxCalls
  /\ ops' = Append(ops, NewOp("get", s, <<>>, FALSE, key, {}, <<>>, Len(txs) + 1, 0))
  /\ txs' = Append(txs, NewTx(Len(ops) + 1))
  /\ UNCHANGED <<tables, tokens, keygen, asserts, schema>>

\* runInTransaction(trFn, scopes, mode, keys)
RunInTransaction(script, toks) ==
  /\ TopCalls < MaxCalls
  /\ KeysAvailable(ScriptDemand(script, Len(script)))
  /\ ops' = Append(ops, NewOp("run", "", <<>>, FALSE, Undef, toks, script,
                              Len(txs) + 1, 0))
  /\ txs' = Append(txs, NewTx(Len(ops) + 1))
  /\ UNCHANGED <<tables, tokens, keygen, asserts, schema>>

\* A per-token entry point called by code that is not running inside a
\* callback of any transaction
CallOutside(c) ==
  /\ TopCalls < MaxCalls
  /\ KeysAvailable(Demand(c.store, c.objs))
  /\ LET r == PerTokenCall(c, Len(ops) + 1, tokens[c.tok], 0, keygen, 0)
     IN /\ ops' = Append(ops, r.op)
        /\ keygen' = r.counter
  /\ UNCHANGED <<tables, txs, tokens, asserts, schema>>

\* the operations a call adds and the transactions it requests, one each
Call(op) ==
  /\ ops' = Append(ops, [op EXCEPT !.tx = Len(txs) + 1])
  /\ txs' = Append(txs, NewTx(Len(ops) + 1))

\* a call that throws, or returns a deferred, without requesting a transaction
CallOnly(op) ==
  /\ ops' = Append(ops, [op EXCEPT !.tx = 0])
  /\ txs' = txs

\* clear_(table_name, opt_key), table_name being defined:
\* goog.asserts.assertObject(store) or store.getQuotedName() throws when the
\* catalog has no such store
Clear_(s, key) ==
  LET op == NewOp("clear", s, <<>>, FALSE, key, {}, <<>>, 0, 0)
  IN IF HasStore(s) THEN Call(op) ELSE CallOnly([op EXCEPT !.ret = "threw"])

\* the enumerable properties of this.schema that this file reads
SchemaProperties == <<"version", "size", "stores">>

\* clear(opt_table, opt_key)
Clear(s, key) ==
  /\ TopCalls < MaxCalls
  /\ IF s # ""
       THEN IF ~HasStore(s)
              THEN CallOnly([NewOp("clear", s, <<>>, FALSE, key, {}, <<>>, 0, 0)
                               EXCEPT !.ret = "threw"])
              ELSE Clear_(s, key)
       \* for (var store in this.schema) dfs.push(this.clear_(store)): the
       \* loop runs over the properties of the catalog object, and clear_
       \* throws for the first one, which is not the name of a store
       ELSE CallOnly([NewOp("clearAll", "", <<>>, FALSE, Undef, {}, <<>>, 0, 0)
                        EXCEPT !.ret = IF HasStore(SchemaProperties[1])
                                         THEN "df" ELSE "threw"])
  /\ UNCHANGED <<tables, tokens, keygen, asserts, schema>>

\* count(table)
Count(s) ==
  /\ TopCalls < MaxCalls
  /\ Call(NewOp("count", s, <<>>, FALSE, Undef, {}, <<>>, 0, 0))
  /\ UNCHANGED <<tables, tokens, keygen, asserts, schema>>

\* deleteRow_(table, id)
DeleteRow_(s, id) ==
  LET op == NewOp("deleteRow", s, <<>>, FALSE, id, {}, <<>>, 0, 0)
  IN IF HasStore(s) THEN Call(op)
     ELSE CallOnly(Fire(op, "rejected", "error", <<>>, <<>>, TableNotFound))

\* dropTable_(opt_table)
DropTable_(s) ==
  IF s = "" THEN Call(NewOp("dropAll", "", <<>>, FALSE, Undef, {}, <<>>, 0, 0))
  ELSE LET op == NewOp("dropTable", s, <<>>, FALSE, Undef, {}, <<>>, 0, 0)
       IN IF HasStore(s) THEN Call(op) ELSE CallOnly([op EXCEPT !.ret = "threw"])

\* remove(opt_table, opt_id)
Remove(s, id) ==
  /\ TopCalls < MaxCalls
  /\ IF s # ""
       THEN IF IsDef(id) THEN DeleteRow_(s, id) ELSE DropTable_(s)
       ELSE DropTable_("")
  /\ UNCHANGED <<tables, tokens, keygen, asserts, schema>>

\* fetch(q, limit, offset): store.getQuotedName() throws when the catalog has
\* no store q.store
Fetch(q, limit) ==
  /\ TopCalls < MaxCalls
  /\ LET op == [NewOp("fetch", q.store, <<>>, FALSE, Undef, {}, <<>>, 0, 0)
                 EXCEPT !.q = q, !.limit = limit]
     IN IF HasStore(q.store) THEN Call(op) ELSE CallOnly([op EXCEPT !.ret = "threw"])
  /\ UNCHANGED <<tables, tokens, keygen, asserts, schema>>

-----------------------------------------------------------------------------
(* The backend runs the transactions one at a time, in request order *)

\* the CREATE TABLE IF NOT EXISTS statements of migrate, one per store
MigrateStmts ==
  [i \in 1..Len(StoreOrder) |->
     Stmt(0, "create", StoreOrder[i], NoOut, Undef, i, i = Len(StoreOrder))]

\* the injection stopping after the first token
InjectFirst(toks, t, tok) ==
  [k \in Tokens |-> IF k = (CHOOSE x \in toks : TRUE) THEN t ELSE tok[k]]

\* for (key = keys[i]) key.tx = tx: the token fields after the injection
Inject(toks, t, tok) == [k \in Tokens |-> IF k \in toks THEN t ELSE tok[k]]

\* The transaction callback of transaction t: what it leaves of the
\* operations, the token fields and the key counter, and the statements it submits
TxCallback(t) ==
  LET o == txs[t].op
      none == [ops |-> ops, stmts |-> <<>>, counter |-> keygen, threw |-> FALSE,
               tokens |-> tokens]
  IN IF o = 0 THEN [none EXCEPT !.stmts = MigrateStmts]
     ELSE IF ops[o].api = "run"
       THEN LET injected == Inject(ops[o].toks, t, tokens)
                r == RunScript(ops[o].script, 1, none, injected, t, o)
            IN [ops |-> r.ops, stmts |-> r.stmts, counter |-> r.counter,
                threw |-> r.threw, tokens |-> injected]
     ELSE LET r == IF ops[o].api = "put" THEN ExecutePut_(ops[o], o, t, t, keygen)
                   ELSE IF ops[o].api = "get"
                     THEN ExecuteGet_(ops[o], o, t, t, keygen)
                   ELSE ExecuteOne(ops[o], o, keygen)
          IN [ops |-> [ops EXCEPT ![o] = r.op], stmts |-> r.stmts,
              counter |-> r.counter, threw |-> r.threw, tokens |-> tokens]

\* The backend opens the next requested transaction and runs its callback.
\* When the callback throws, the backend either rolls the transaction back
\* without executing its statements (abort) or goes on with them.
TxBegin(abort) ==
  /\ OpenTxs = {}
  /\ QueuedTxs # {}
  /\ LET t == CHOOSE x \in QueuedTxs : \A y \in QueuedTxs : x <= y
         r == TxCallback(t)
     IN /\ abort => r.threw
        /\ ops' = r.ops
        /\ tokens' = r.tokens
        /\ keygen' = r.counter
        /\ txs' = [txs EXCEPT ![t] =
                     [@ EXCEPT !.state = IF abort THEN "rolledback" ELSE "open",
                               !.stmts = r.stmts, !.threw = r.threw,
                               !.snap = tables]]
  /\ UNCHANGED <<tables, asserts, schema>>

\* The backend ends a transaction all of whose statements have been executed
TxCommit ==
  /\ \E t \in OpenTxs :
       /\ txs[t].pos = Len(txs[t].stmts)
       /\ txs' = [txs EXCEPT ![t] = [@ EXCEPT !.state = "committed"]]
  /\ UNCHANGED <<tables, ops, tokens, keygen, asserts, schema>>

-----------------------------------------------------------------------------
(* Statement callbacks *)

\* the success callback putting the key in front of the result
PutSuccessFront(op, key, last) ==
  IF op.isArray
    THEN LET pushed == [op EXCEPT !.arr_result = <<key>> \o @]
         IN IF last
              THEN [op |-> Fire(pushed, "resolved", "keys", pushed.arr_result, <<>>, 0),
                    threw |-> HasFired(op)]
              ELSE [op |-> pushed, threw |-> FALSE]
    ELSE [op |-> Fire(op, "resolved", "key", <<key>>, <<>>, 0), threw |-> HasFired(op)]

\* success_callback(last, key, transaction, results) of executePut_
PutSuccess(op, key, last) ==
  IF op.isArray
    THEN LET pushed == [op EXCEPT !.arr_result = Append(@, key)]
         IN IF last
              THEN [op |-> Fire(pushed, "resolved", "keys", pushed.arr_result, <<>>, 0),
                    threw |-> HasFired(op)]
              ELSE [op |-> pushed, threw |-> FALSE]
    ELSE [op |-> Fire(op, "resolved", "key", <<key>>, <<>>, 0), threw |-> HasFired(op)]

\* the error callback that marks the error and does not reject
PutErrorSilent(op, error) ==
  [op |-> [op EXCEPT !.has_error = TRUE], threw |-> FALSE]

\* error_callback(tr, error) of executePut_
PutError(op, error) ==
  LET marked == [op EXCEPT !.has_error = TRUE]
  IN [op |-> Fire(marked, "rejected", "error", <<>>, <<>>, error),
      threw |-> HasFired(op)]

RECURSIVE ParseRows(_, _, _, _)
\* the loop of the callback of executeGet_ over results.rows, from row j on:
\* the parsed rows, or threw when parseRow throws
ParseRows(s, rows, assertsOn, j) ==
  IF j > Len(rows) THEN [threw |-> FALSE, recs |-> <<>>]
  ELSE LET p == ParseRow(s, rows[j], assertsOn)
           rest == ParseRows(s, rows, assertsOn, j + 1)
       IN IF p.threw \/ rest.threw THEN [threw |-> TRUE, recs |-> <<>>]
          ELSE [threw |-> FALSE, recs |-> <<p.value>> \o rest.recs]

\* callback(transaction, results) of executeGet_, results.rows being rows
GetCallback(op, rows, assertsOn) ==
  IF ~IsDef(op.key)
    THEN LET arr == ParseRows(op.store, rows, assertsOn, 1)
         IN IF arr.threw THEN [op |-> op, threw |-> TRUE]
            ELSE [op |-> Fire(op, "resolved", "recs", <<>>, arr.recs, 0),
                  threw |-> HasFired(op)]
  ELSE IF Len(rows) > 0
    THEN LET p == ParseRow(op.store, rows[1], assertsOn)
         IN IF p.threw THEN [op |-> op, threw |-> TRUE]
            ELSE [op |-> Fire(op, "resolved", "rec", <<>>, <<p.value>>, 0),
                  threw |-> HasFired(op)]
  ELSE [op |-> Fire(op, "resolved", "undef", <<>>, <<>>, 0), threw |-> HasFired(op)]

\* error_callback(tr, error) of executeGet_
GetError(op, error) ==
  [op |-> Fire(op, "rejected", "error", <<>>, <<>>, error), threw |-> HasFired(op)]

\* callback(transaction, results) of clear_
ClearCallback(op) ==
  [op |-> Fire(op, "resolved", "true", <<>>, <<>>, 0), threw |-> HasFired(op)]

\* error_callback(tr, error) of clear_
ClearError(op, error) ==
  [op |-> Fire(op, "rejected", "error", <<>>, <<>>, error), threw |-> HasFired(op)]

\* the callback resolving with no count
CountNothing(op, rows) ==
  [op |-> Fire(op, "resolved", "count", <<>>, <<>>, 0), threw |-> HasFired(op)]

\* callback(transaction, results) of count: d.callback(row['COUNT(*)'])
CountCallback(op, rows) ==
  [op |-> IF HasFired(op) THEN Fire(op, "resolved", "count", <<>>, <<>>, 0)
          ELSE [Fire(op, "resolved", "count", <<>>, <<>>, 0) EXCEPT !.count = Len(rows)],
   threw |-> HasFired(op)]

\* error_callback(tr, error) of count
CountError(op, error) ==
  [op |-> Fire(op, "rejected", "error", <<>>, <<>>, error), threw |-> HasFired(op)]

\* success_callback(transaction, results) of deleteRow_
DeleteRowSuccess(op) ==
  [op |-> Fire(op, "resolved", "true", <<>>, <<>>, 0), threw |-> HasFired(op)]

\* error_callback(tr, error) of deleteRow_
DeleteRowError(op, error) ==
  [op |-> Fire(op, "rejected", "error", <<>>, <<>>, error), threw |-> HasFired(op)]

\* callback(transaction, results) of dropTable_
DropCallback(op) ==
  [op |-> Fire(op, "resolved", "true", <<>>, <<>>, 0), threw |-> HasFired(op)]

\* error_callback(tr, error) of dropTable_
DropError(op, error) ==
  [op |-> Fire(op, "rejected", "error", <<>>, <<>>, error), threw |-> HasFired(op)]

\* q.continue(value) and q.filter(value): the predicates of the queries
ApplyPred(fn, value) ==
  CASE fn = "tagIsX" -> value.tag = S("x")
    [] fn = "idIsA" -> value.id = S("a")
    [] fn = "idNotD" -> value.id # S("d")
    [] fn = "never" -> FALSE
    [] OTHER -> TRUE

\* q.map(value)
ApplyMap(fn, value) ==
  IF fn = "keyOnly" THEN [NoRec EXCEPT !.id = value.id] ELSE value

\* q.reduce(result, value, i)
ApplyReduce(fn, result, value, i) ==
  IF fn = "firstTag" THEN (IF IsDef(result) THEN result ELSE value.tag)
  ELSE IF fn = "lastId" THEN value.id
  ELSE value.tag

RECURSIVE ScanAccepted(_, _, _, _, _, _)
\* the loop testing continue and the limit on the rows the filter accepts only
ScanAccepted(q, limit, rows, assertsOn, i, result) ==
  IF i >= Len(rows) THEN result
  ELSE LET p == ParseRow(q.store, rows[i + 1], assertsOn)
           value == p.value
           to_continue == q.continue = "none" \/ ApplyPred(q.continue, value)
           pass == q.filter = "none" \/ ApplyPred(q.filter, value)
           mapped == IF q.map = "none" THEN value ELSE ApplyMap(q.map, value)
           pushed == IF q.reduce # "none"
                       THEN [result EXCEPT !.acc = ApplyReduce(q.reduce, @, mapped, i)]
                     ELSE [result EXCEPT !.recs = Append(@, mapped)]
           done == [pushed EXCEPT !.scanned = i + 1]
       IN IF p.threw THEN [result EXCEPT !.threw = TRUE]
          ELSE IF ~pass
            THEN ScanAccepted(q, limit, rows, assertsOn, i + 1,
                              [result EXCEPT !.scanned = i + 1])
          ELSE IF ~(to_continue /\ (limit = NoLimit \/ i < limit)) THEN done
          ELSE ScanAccepted(q, limit, rows, assertsOn, i + 1, done)

RECURSIVE Scan(_, _, _, _, _, _)
\* the loop of the callback of fetch over results.rows, from row index i on
\* (the first row has index 0): the result list or the accumulator, the
\* number of rows processed, and threw when parseRow throws
Scan(q, limit, rows, assertsOn, i, result) ==
  IF i >= Len(rows) THEN result
  ELSE LET p == ParseRow(q.store, rows[i + 1], assertsOn)
           value == p.value
           to_continue == q.continue = "none" \/ ApplyPred(q.continue, value)
           pass == q.filter = "none" \/ ApplyPred(q.filter, value)
           mapped == IF q.map = "none" THEN value ELSE ApplyMap(q.map, value)
           pushed == IF ~pass THEN result
                     ELSE IF q.reduce # "none"
                       THEN [result EXCEPT !.acc = ApplyReduce(q.reduce, @, mapped, i)]
                     ELSE [result EXCEPT !.recs = Append(@, mapped)]
           done == [pushed EXCEPT !.scanned = i + 1]
       IN IF p.threw THEN [result EXCEPT !.threw = TRUE]
          ELSE IF ~(to_continue /\ (limit = NoLimit \/ i < limit)) THEN done
          ELSE Scan(q, limit, rows, assertsOn, i + 1, done)

\* the callback building a list whether or not the query has a reduce function
FetchAsList(op, rows, assertsOn) ==
  LET r == Scan([op.q EXCEPT !.reduce = "none"], op.limit, rows, assertsOn, 0,
                [recs |-> <<>>, acc |-> Undef, scanned |-> 0, threw |-> FALSE])
  IN IF r.threw THEN [op |-> op, threw |-> TRUE]
     ELSE IF HasFired(op)
       THEN [op |-> Fire(op, "resolved", "recs", <<>>, r.recs, 0), threw |-> TRUE]
     ELSE [op |-> [Fire(op, "resolved", "recs", <<>>, r.recs, 0)
                     EXCEPT !.scanned = r.scanned],
           threw |-> FALSE]

\* callback(transaction, results) of fetch
FetchCallback(op, rows, assertsOn) ==
  LET r == Scan(op.q, op.limit, rows, assertsOn, 0,
                [recs |-> <<>>, acc |-> Undef, scanned |-> 0, threw |-> FALSE])
      kind == IF op.q.reduce # "none" THEN "acc" ELSE "recs"
  IN IF r.threw THEN [op |-> op, threw |-> TRUE]
     ELSE IF HasFired(op)
       THEN [op |-> Fire(op, "resolved", kind, <<>>, r.recs, 0), threw |-> TRUE]
     ELSE [op |-> [Fire(op, "resolved", kind, <<>>, r.recs, 0)
                     EXCEPT !.acc = r.acc, !.scanned = r.scanned],
           threw |-> FALSE]

\* error_callback(tr, error) of fetch
FetchError(op, error) ==
  [op |-> Fire(op, "rejected", "error", <<>>, <<>>, error), threw |-> HasFired(op)]

-----------------------------------------------------------------------------
(* Statement execution *)

\* the open transaction and its next statement
CurTx == CHOOSE t \in OpenTxs : TRUE
HasNextStmt == OpenTxs # {} /\ txs[CurTx].pos < Len(txs[CurTx].stmts)
NextStmt == txs[CurTx].stmts[txs[CurTx].pos + 1]

\* whether the database can execute the statement
CanSucceed(st) ==
  CASE st.kind = "create" -> TRUE
    [] st.kind \in {"selectUndefinedColumn", "deleteRowUndefinedColumn"} -> FALSE
    [] st.kind = "dropAll" -> tables[StoreOrder[1]].exists
    [] OTHER -> HasStore(st.store) /\ tables[st.store].exists

\* a delete that takes no notice of the key
DeleteAllRows(s, rows, key) == <<>>

\* DELETE FROM table WHERE key_column = ?, the key column being the key path
\* or the surrogate key column
DeleteKey(s, rows, key) ==
  SelectRows(rows, {r \in RowSet(rows) : r.key = Affinity(KeyColumnType(s), key)}, 1)

\* the rows that DELETE FROM table WHERE keyPath = "id" deletes: a text in
\* double quotes names a column when the table has one of that name, and is
\* a string otherwise
DeleteRowMatches(s, rows, id) ==
  LET text == ToStr(id).v
  IN {r \in RowSet(rows) :
        IF text = KeyPath(s).v THEN TRUE
        ELSE IF text \in IndexNames(s) THEN ToStr(r.key) = ToStr(r[text])
        ELSE r.key = S(text)}

\* the tables after the statement has been executed
Effect(st) ==
  CASE st.kind = "create" ->
         IF tables[st.store].exists THEN tables
         ELSE [tables EXCEPT ![st.store] = TableOf(<<>>)]
    [] st.kind = "upsert" ->
         [tables EXCEPT ![st.store] =
            TableOf(InsertOrReplace(st.store, @.rows, StoredRow(st.store, st.out)))]
    [] st.kind = "delete" -> [tables EXCEPT ![st.store] = TableOf(<<>>)]
    [] st.kind = "deleteKey" ->
         [tables EXCEPT ![st.store] = TableOf(DeleteKey(st.store, @.rows, st.key))]
    [] st.kind = "deleteRow" ->
         [tables EXCEPT ![st.store] =
            TableOf(SelectRows(@.rows, DeleteRowMatches(st.store, @.rows, st.key), 1))]
    [] st.kind = "drop" -> [tables EXCEPT ![st.store] = NoTable]
    \* of several statements in one text the database executes the first
    [] st.kind = "dropAll" -> [tables EXCEPT ![StoreOrder[1]] = NoTable]
    [] OTHER -> tables

\* the rows a select statement returns
Selected(st) ==
  IF st.kind = "selectKey" THEN RowsWithKey(st.store, tables[st.store].rows, st.key)
  ELSE tables[st.store].rows

\* the success callback given to executeSql with the statement
OnSuccess(st) ==
  CASE st.kind = "upsert" -> PutSuccess(ops[st.op], st.out.key, st.last)
    [] st.kind \in {"select", "selectKey"} ->
         GetCallback(ops[st.op], Selected(st), asserts)
    [] st.kind \in {"delete", "deleteKey"} -> ClearCallback(ops[st.op])
    [] st.kind = "count" -> CountCallback(ops[st.op], Selected(st))
    [] st.kind = "deleteRow" -> DeleteRowSuccess(ops[st.op])
    [] st.kind \in {"drop", "dropAll"} -> DropCallback(ops[st.op])
    [] st.kind = "fetch" -> FetchCallback(ops[st.op], Selected(st), asserts)
    [] OTHER -> [op |-> <<>>, threw |-> FALSE]

\* the error callback given to executeSql with the statement
OnError(st, error) ==
  CASE st.kind = "upsert" -> PutError(ops[st.op], error)
    [] st.kind \in {"select", "selectKey", "selectUndefinedColumn"} ->
         GetError(ops[st.op], error)
    [] st.kind \in {"delete", "deleteKey"} -> ClearError(ops[st.op], error)
    [] st.kind = "count" -> CountError(ops[st.op], error)
    [] st.kind \in {"deleteRow", "deleteRowUndefinedColumn"} ->
         DeleteRowError(ops[st.op], error)
    [] st.kind \in {"drop", "dropAll"} -> DropError(ops[st.op], error)
    [] st.kind = "fetch" -> FetchError(ops[st.op], error)
    [] OTHER -> [op |-> <<>>, threw |-> FALSE]

\* the transaction after its next statement ended with res; abort rolls it back
Advance(res, abort) ==
  [txs EXCEPT ![CurTx] =
     [@ EXCEPT !.pos = @ + 1, !.stmts[txs[CurTx].pos + 1].res = res,
               !.state = IF abort THEN "rolledback" ELSE "open"]]

\* the operations after a statement callback returned r
AfterCallback(st, r) == IF st.op = 0 THEN ops ELSE [ops EXCEPT ![st.op] = r.op]

\* The backend executes the next statement and calls its success callback.
\* When the callback throws, the backend either rolls back (abort) or goes on.
ExecOk(abort) ==
  /\ HasNextStmt
  /\ CanSucceed(NextStmt)
  /\ LET r == OnSuccess(NextStmt)
     IN /\ abort => r.threw
        /\ ops' = AfterCallback(NextStmt, r)
        /\ tables' = IF abort THEN txs[CurTx].snap ELSE Effect(NextStmt)
        /\ txs' = Advance("ok", abort)
        /\ tokens' = IF NextStmt.op = 0 THEN tokens
                     ELSE RunCleanup(r.op, HasFired(ops[NextStmt.op]), tokens)
  /\ UNCHANGED <<keygen, asserts, schema>>

\* The next statement fails (always when the database cannot execute it, and
\* for the kinds in flaky for a reason of the engine) and its error callback is
\* called, which does not return false: the backend rolls back (abort) or goes on.
ExecFail(flaky, abort) ==
  /\ HasNextStmt
  /\ ~CanSucceed(NextStmt) \/ NextStmt.kind \in flaky
  /\ LET r == OnError(NextStmt, txs[CurTx].pos + 1)
     IN /\ ops' = AfterCallback(NextStmt, r)
        /\ tokens' = IF NextStmt.op = 0 THEN tokens
                     ELSE RunCleanup(r.op, HasFired(ops[NextStmt.op]), tokens)
  /\ tables' = IF abort THEN txs[CurTx].snap ELSE tables
  /\ txs' = Advance("failed", abort)
  /\ UNCHANGED <<keygen, asserts, schema>>

-----------------------------------------------------------------------------
(* The caller's inputs *)

RA1 == Rec(S("a"), S("x"), N("1"), S("hi"))
RA2 == Rec(S("a"), S("y"), N("2"), S("yo"))
RB == Rec(S("b"), S("x"), N("2"), Undef)
R1 == Rec(N("1"), S("x"), N("3"), S("hi"))
RN == Rec(Undef, S("y"), N("4"), S("yo"))
RA3 == Rec(S("a"), S("y"), N("1"), S("yo"))
RE == Rec(S("e"), Undef, Undef, S("hi"))

\* the per-token calls the caller makes
GetA == TokenCall("getInTransaction", "k1", "note", <<>>, FALSE, S("a"))
PutA == TokenCall("putInTransaction", "k1", "note", <<RA1>>, FALSE, Undef)
PutList == TokenCall("putInTransaction", "k2", "note", <<RB, RA2>>, TRUE, Undef)
PutNone == TokenCall("putInTransaction", "k2", "note", <<>>, TRUE, Undef)
ClearA == TokenCall("clearInTransaction", "k1", "note", <<>>, FALSE, S("a"))

\* the calls of runInTransaction the caller makes: the per-token calls of
\* operationFn and the token list (keys)
Runs ==
  {[script |-> <<>>, toks |-> {"k1"}],
   [script |-> <<PutA, GetA>>, toks |-> {"k1", "k2"}],
   [script |-> <<PutList, GetA>>, toks |-> {"k1"}],
   [script |-> <<PutList, GetA>>, toks |-> {"k1", "k2"}],
   [script |-> <<ClearA, PutNone>>, toks |-> {"k1", "k2"}]}

\* the per-token calls the caller makes outside operationFn
OutsideCalls == {GetA, PutA, PutNone, ClearA}

-----------------------------------------------------------------------------
(* Scoped transactions and per-token calls.  No store without key path is   *)
(* read here, so the build with assertions enabled stands for both.         *)

InitTx == Init /\ asserts

NextTx ==
  \/ \E r \in Runs : RunInTransaction(r.script, r.toks)
  \/ \E c \in OutsideCalls : CallOutside(c)
  \/ \E abort \in BOOLEAN : TxBegin(abort)
  \/ \E abort \in BOOLEAN : ExecOk(abort)
  \/ \E abort \in BOOLEAN : ExecFail({"upsert", "selectKey"}, abort)
  \/ TxCommit

Spec == InitTx /\ [][NextTx]_vars

\* the per-token operations, and whether one was called inside operationFn of
\* a runInTransaction whose token list holds its token
PerTokenOps ==
  {i \in 1..Len(ops) :
     ops[i].api \in {"getInTransaction", "putInTransaction", "clearInTransaction"}}
InScope(i) == ops[i].parent # 0 /\ ops[i].toks \subseteq ops[ops[i].parent].toks
RunOps == {i \in 1..Len(ops) : ops[i].api = "run"}

\* the statements of operation i in transaction t
StmtsOf(i, t) == {j \in 1..Len(txs[t].stmts) : txs[t].stmts[j].op = i}

\* nothing is left to run: no transaction is queued or open
Quiet == QueuedTxs = {} /\ OpenTxs = {}

-----------------------------------------------------------------------------
(* Claims about scoped transactions *)

\* C1 (as claimed): once the physical transaction of a runInTransaction call
\* has finished, no token of its scope still carries that transaction
C1_ScopeCleanup ==
  \A i \in RunOps :
    FinishedTx(ops[i].tx) => \A k \in ops[i].toks : tokens[k] # ops[i].tx

\* C2 (as claimed): when the transaction of a runInTransaction call has
\* finished and nothing is left to run, the deferred the call returned has
\* settled, and it settles only with the association removed from every token
C2_RunSettles ==
  \A i \in RunOps :
    /\ (FinishedTx(ops[i].tx) /\ Quiet /\ TopCalls = MaxCalls) => HasFired(ops[i])
    /\ HasFired(ops[i]) => \A k \in ops[i].toks : tokens[k] # ops[i].tx

\* C3 (as claimed): a per-token call for a token without an active
\* association fails with an error and submits no statement
C3_ScopeViolation ==
  \A j \in PerTokenOps :
    ops[j].assoc # "active" =>
      /\ ops[j].ret = "threw" \/ ops[j].state = "rejected"
      /\ ops[j].nstmt = 0
      /\ \A t \in 1..Len(txs) : StmtsOf(j, t) = {}

\* the statements a per-token call has to submit
Expected(j) ==
  IF ops[j].api = "getInTransaction" THEN 1
  ELSE IF ops[j].api = "putInTransaction" THEN Len(ops[j].objs) ELSE 0

\* C4: a runInTransaction call opens exactly one physical transaction and no
\* per-token call opens one; when operationFn has run, every token of the
\* scope carries that transaction; every per-token call made in operationFn
\* for a token of the scope is given that transaction and its statements are
\* all submitted to it
C4_OneTransaction ==
  /\ \A i \in RunOps : Cardinality({t \in 1..Len(txs) : txs[t].op = i}) = 1
  /\ \A t \in 1..Len(txs) : txs[t].op \notin PerTokenOps
  /\ \A i \in RunOps :
       txs[ops[i].tx].state = "open" => \A k \in ops[i].toks : tokens[k] = ops[i].tx
  /\ \A j \in PerTokenOps :
       InScope(j) =>
         /\ ops[j].tx = ops[ops[j].parent].tx
         /\ ops[j].ret # "threw"
         /\ Cardinality(StmtsOf(j, ops[j].tx)) = Expected(j)
         /\ \A t \in 1..Len(txs) : StmtsOf(j, t) # {} => t = ops[ops[j].parent].tx

\* C4 witness: operationFn of a scope of two tokens has made a put of two
\* records for one token and a get for the other, in one open transaction
C4_Witness ==
  \E i \in RunOps :
    /\ ops[i].toks = {"k1", "k2"}
    /\ txs[ops[i].tx].state = "open"
    /\ \E j1, j2 \in PerTokenOps :
         /\ ops[j1].parent = i /\ ops[j2].parent = i
         /\ ops[j1].api = "putInTransaction" /\ ops[j1].toks = {"k2"}
         /\ ops[j2].api = "getInTransaction" /\ ops[j2].toks = {"k1"}
         /\ Cardinality(StmtsOf(j1, ops[i].tx)) = 2
         /\ Cardinality(StmtsOf(j2, ops[i].tx)) = 1

\* C5 (as claimed): clearInTransaction for a token of a running scope submits
\* a delete statement to the transaction and returns a deferred
C5_ClearInTransaction ==
  \A j \in PerTokenOps :
    (ops[j].api = "clearInTransaction" /\ ops[j].assoc = "active") =>
      /\ ops[j].ret = "df"
      /\ Cardinality(StmtsOf(j, ops[j].tx)) = 1

-----------------------------------------------------------------------------
(* put of a list *)

PutInput(s, objs, isArray) == [s |-> s, objs |-> objs, isArray |-> isArray]

ListPuts ==
  {PutInput("note", <<RA1, RB>>, TRUE), PutInput("note", <<RN, RA2, RB>>, TRUE),
   PutInput("log", <<RN, RA1>>, TRUE), PutInput("note", <<>>, TRUE),
   PutInput("note", <<RA1>>, FALSE), PutInput(UnknownStore, <<RA1>>, TRUE)}

NextPut ==
  \/ \E p \in ListPuts : Put(p.s, p.objs, p.isArray)
  \/ Get("note", S("a"))
  \/ \E abort \in BOOLEAN : TxBegin(abort)
  \/ \E abort \in BOOLEAN : ExecOk(abort)
  \/ \E abort \in BOOLEAN : ExecFail({"upsert"}, abort)
  \/ TxCommit

SpecPut == Init /\ [][NextPut]_vars

\* the put calls of a list into a declared store
ListPutOps ==
  {i \in 1..Len(ops) : ops[i].api = "put" /\ ops[i].isArray /\ HasStore(ops[i].store)}

\* the statements of transaction t that have ended with res
Ended(t, res) == {j \in 1..Len(txs[t].stmts) : txs[t].stmts[j].res = res}

\* C6: once its transaction callback has run, a put of a list has submitted one
\* upsert per item, in list order and all to its one transaction; when every
\* one of them has succeeded the deferred is resolved, once, with the keys of
\* the items in list order; and it is resolved in no other case
C6_PutList ==
  \A i \in ListPutOps :
    LET t == ops[i].tx
        st == txs[t].stmts
    IN /\ \A u \in 1..Len(txs) : StmtsOf(i, u) # {} => u = t
       /\ txs[t].state # "queued" =>
            /\ Len(st) = Len(ops[i].objs)
            /\ \A j \in 1..Len(st) :
                 /\ st[j].kind = "upsert" /\ st[j].op = i /\ st[j].item = j
                 /\ st[j].store = ops[i].store
                 /\ st[j].out.blob = ops[i].objs[j]
                 /\ ~NeedsKey(ops[i].store, ops[i].objs[j]) =>
                      st[j].out.key = ToStr(ops[i].objs[j].id)
       /\ (Len(st) > 0 /\ Ended(t, "ok") = 1..Len(st)) =>
            /\ ops[i].state = "resolved" /\ ops[i].kind = "keys"
            /\ ops[i].fires = 1
            /\ ops[i].keys = [j \in 1..Len(st) |-> st[j].out.key]
       /\ ops[i].state = "resolved" => (Len(st) > 0 /\ Ended(t, "ok") = 1..Len(st))

\* C6 witness: a put of three records has been resolved with three keys and
\* its transaction has committed
C6_Witness ==
  \E i \in ListPutOps :
    /\ Len(ops[i].objs) = 3
    /\ ops[i].state = "resolved" /\ Len(ops[i].keys) = 3
    /\ txs[ops[i].tx].state = "committed"

-----------------------------------------------------------------------------
(* put and get of single records *)

RecordPuts ==
  {PutInput("note", <<RA3>>, FALSE), PutInput("note", <<RA2>>, FALSE),
   PutInput("note", <<R1>>, FALSE), PutInput("note", <<RN>>, FALSE),
   PutInput("log", <<RN>>, FALSE), PutInput("note", <<RA1, RB>>, TRUE),
   PutInput("note", <<RE>>, FALSE)}

GetInput(s, key) == [s |-> s, key |-> key]

KeyGets ==
  {GetInput("note", S("a")), GetInput("note", S("1")), GetInput("note", N("1")),
   GetInput("log", N("1")), GetInput("note", S("e"))}

NextRound ==
  \/ \E p \in RecordPuts : Put(p.s, p.objs, p.isArray)
  \/ \E g \in KeyGets : Get(g.s, g.key)
  \/ \E abort \in BOOLEAN : TxBegin(abort)
  \/ \E abort \in BOOLEAN : ExecOk(abort)
  \/ \E abort \in BOOLEAN : ExecFail({"upsert"}, abort)
  \/ TxCommit

SpecRound == Init /\ [][NextRound]_vars

\* the committed transactions of a put of one record whose statement
\* succeeded, no later transaction having begun
LastPuts ==
  {t \in 1..Len(txs) :
     /\ txs[t].state = "committed" /\ txs[t].op # 0
     /\ ops[txs[t].op].api = "put" /\ ~ops[txs[t].op].isArray
     /\ Len(txs[t].stmts) = 1 /\ txs[t].stmts[1].res = "ok"
     /\ \A u \in 1..Len(txs) : u > t => txs[u].state = "queued"}

\* C8 (as claimed): after a put of a record whose key an earlier put has left
\* a row for, the store holds exactly one row for that key, the row of the
\* second put, and the rows of the other keys are the same as before
C8_Upsert ==
  \A t \in LastPuts :
    LET s == txs[t].stmts[1].store
        new == StoredRow(s, txs[t].stmts[1].out)
        before == RowSet(txs[t].snap[s].rows)
        after == tables[s].rows
    IN (\E r \in before : r.key = new.key) =>
         /\ Cardinality({j \in 1..Len(after) : after[j].key = new.key}) = 1
         /\ new \in RowSet(after)
         /\ {r \in before : r.key # new.key} = {r \in RowSet(after) : r.key # new.key}

\* r holds the value of the row new in a column declared UNIQUE
UniqueClash(s, r, new) ==
  \E i \in 1..Len(Indexes(s)) :
    /\ Indexes(s)[i].unique
    /\ new[Indexes(s)[i].name] # Null
    /\ r[Indexes(s)[i].name] = new[Indexes(s)[i].name]

\* C8 (amended): after a put of a record whose key an earlier put has left a
\* row for, the store holds exactly one row for that key, the row of the
\* second put; the rows of the other keys are the same as before, except
\* those that held the value of the new row in a UNIQUE column: they are gone
C8_UpsertUnique ==
  \A t \in LastPuts :
    LET s == txs[t].stmts[1].store
        new == StoredRow(s, txs[t].stmts[1].out)
        before == RowSet(txs[t].snap[s].rows)
        after == tables[s].rows
    IN (\E r \in before : r.key = new.key) =>
         /\ Cardinality({j \in 1..Len(after) : after[j].key = new.key}) = 1
         /\ new \in RowSet(after)
         /\ {r \in before : r.key # new.key /\ ~UniqueClash(s, r, new)}
              = {r \in RowSet(after) : r.key # new.key}
         /\ \A o \in Stores \ {s} : tables[o] = txs[t].snap[o]

\* C8 witness: a second put of a key has replaced a row of other field values
\* and the row of another key is still there
C8_Witness ==
  \E t \in LastPuts :
    LET s == txs[t].stmts[1].store
        new == StoredRow(s, txs[t].stmts[1].out)
        before == RowSet(txs[t].snap[s].rows)
    IN /\ \E r \in before : r.key = new.key /\ r # new
       /\ \E r \in before : r.key # new.key /\ r \in RowSet(tables[s].rows)

\* a Record whose declared Index fields match the affinities of their columns
AffinityOk(s, obj) ==
  \A i \in 1..Len(Indexes(s)) :
    IsDef(obj[Indexes(s)[i].name]) =>
      obj[Indexes(s)[i].name].t = (IF Indexes(s)[i].type = "TEXT" THEN "str" ELSE "num")

\* a put of one record that resolved, directly followed by a get of the key
\* it resolved with whose transaction has finished
PutThenGet(i) ==
  /\ i + 1 <= Len(ops)
  /\ ops[i].api = "put" /\ ~ops[i].isArray /\ ops[i].state = "resolved"
  /\ ops[i + 1].api = "get" /\ ops[i + 1].store = ops[i].store
  /\ ops[i + 1].key = ops[i].keys[1]
  /\ FinishedTx(ops[i + 1].tx)

\* C9 (as claimed): a Record whose Index fields match their affinities comes
\* back from put followed by get with its key, its Index fields and its payload
C9_RoundTrip ==
  \A i \in 1..Len(ops) :
    (/\ PutThenGet(i)
     /\ AffinityOk(ops[i].store, ops[i].objs[1])
     /\ IsDef(KeyPath(ops[i].store)) => IsDef(ops[i].objs[1].id)) =>
      /\ ops[i + 1].state = "resolved" /\ ops[i + 1].kind = "rec"
      /\ ops[i + 1].recs = <<ops[i].objs[1]>>

\* C10 (as claimed): a put of a record without key resolves with a new key,
\* and a get of that key right after resolves with an equal Record, in a store
\* with key path and in a store with the surrogate key column
C10_KeyAssignment ==
  \A i \in 1..Len(ops) :
    (PutThenGet(i) /\ NeedsKey(ops[i].store, ops[i].objs[1])) =>
      /\ ops[i + 1].state = "resolved" /\ ops[i + 1].kind = "rec"
      /\ \A f \in Fields \ {"id"} : ops[i + 1].recs[1][f] = ops[i].objs[1][f]

-----------------------------------------------------------------------------
(* put, get, clear and count on the stores *)

StorePuts ==
  {PutInput("note", <<RA1, RB>>, TRUE), PutInput("note", <<RA2>>, FALSE),
   PutInput("log", <<RN, RA1>>, TRUE)}

StoreGets ==
  {GetInput("note", Undef), GetInput("log", Undef), GetInput("note", S("a")),
   GetInput("log", N("1"))}

\* the arguments of clear: "" stands for no store argument
StoreClears ==
  {GetInput("note", S("a")), GetInput("note", Undef), GetInput("log", N("1")),
   GetInput("log", Undef), GetInput("", Undef)}

StoreRowRemoves == {GetInput("note", S("a")), GetInput("log", N("1"))}

NextClear ==
  \/ \E p \in StorePuts : Put(p.s, p.objs, p.isArray)
  \/ \E g \in StoreGets : Get(g.s, g.key)
  \/ \E c \in StoreClears : Clear(c.s, c.key)
  \/ \E s \in Stores : Count(s)
  \/ \E r \in StoreRowRemoves : Remove(r.s, r.key)
  \/ \E abort \in BOOLEAN : TxBegin(abort)
  \/ \E abort \in BOOLEAN : ExecOk(abort)
  \/ \E abort \in BOOLEAN : ExecFail({}, abort)
  \/ TxCommit

SpecClear == Init /\ [][NextClear]_vars

\* transaction t has ended and no transaction requested after it has begun
LastTx(t) ==
  /\ t # 0 /\ FinishedTx(t)
  /\ \A u \in 1..Len(txs) : u > t => txs[u].state = "queued"

\* C11 (as claimed): a get of a whole store that holds no row resolves with an
\* empty list, and a get of a key that no row of the store has resolves with
\* undefined
C11_AbsentResult ==
  \A i \in 1..Len(ops) :
    (ops[i].api = "get" /\ HasStore(ops[i].store) /\ LastTx(ops[i].tx)
       /\ tables[ops[i].store].exists) =>
      LET s == ops[i].store
      IN /\ (~IsDef(ops[i].key) /\ tables[s].rows = <<>>) =>
              (ops[i].state = "resolved" /\ ops[i].kind = "recs" /\ ops[i].recs = <<>>)
         /\ (IsDef(ops[i].key) /\ RowsWithKey(s, tables[s].rows, ops[i].key) = <<>>) =>
              (ops[i].state = "resolved" /\ ops[i].kind = "undef")

-----------------------------------------------------------------------------
(* fetch *)

FetchPuts ==
  {PutInput("note", <<RA1, RB, R1, RN>>, TRUE), PutInput("note", <<RA2>>, FALSE),
   PutInput("log", <<RN>>, FALSE)}

FetchInput(q, limit) == [q |-> q, limit |-> limit]

QAll == Query("note", "none", "none", "none", "none")
QWhileTagX == Query("note", "tagIsX", "none", "none", "none")
QWhileIdA == Query("note", "idIsA", "none", "none", "none")
QStop == Query("note", "never", "none", "none", "none")
QLog == Query("log", "none", "none", "none", "none")

Fetches ==
  {FetchInput(QAll, NoLimit), FetchInput(QAll, 0), FetchInput(QAll, 1),
   FetchInput(QAll, 2), FetchInput(QAll, 5), FetchInput(QWhileTagX, NoLimit),
   FetchInput(QWhileTagX, 5), FetchInput(QWhileIdA, NoLimit),
   FetchInput(QWhileIdA, 2), FetchInput(QStop, NoLimit), FetchInput(QLog, 1)}

NextFetch ==
  \/ \E p \in FetchPuts : Put(p.s, p.objs, p.isArray)
  \/ \E f \in Fetches : Fetch(f.q, f.limit)
  \/ \E abort \in BOOLEAN : TxBegin(abort)
  \/ \E abort \in BOOLEAN : ExecOk(abort)
  \/ \E abort \in BOOLEAN : ExecFail({"fetch"}, abort)
  \/ TxCommit

SpecFetch == Init /\ [][NextFetch]_vars

\* the fetch calls whose transaction was the last to run and whose deferred
\* is resolved: the rows they were given are the rows of the table
DoneFetches ==
  {i \in 1..Len(ops) :
     ops[i].api = "fetch" /\ LastTx(ops[i].tx) /\ ops[i].state = "resolved"}

\* the indexes (from 0) of the rows for which the continuation predicate of
\* fetch i returns false
Stops(i) ==
  LET rows == tables[ops[i].store].rows
  IN {j \in 0..(Len(rows) - 1) :
        ~ApplyPred(ops[i].q.continue, ParseRow(ops[i].store, rows[j + 1], FALSE).value)}

\* C12 (as claimed): a fetch without filter and reduce whose continuation
\* predicate first returns false at row index N, with no limit or a limit
\* above N, resolves with exactly N elements
C12_ScanBoundary ==
  \A i \in DoneFetches :
    (/\ ops[i].q.continue # "none" /\ ops[i].q.filter = "none"
     /\ ops[i].q.reduce = "none" /\ Stops(i) # {}) =>
      LET first == CHOOSE j \in Stops(i) : \A k \in Stops(i) : j <= k
      IN (ops[i].limit = NoLimit \/ ops[i].limit > first) => Len(ops[i].recs) = first

\* the smaller of two numbers
Min(a, b) == IF a < b THEN a ELSE b

\* C20 (as claimed): a fetch with a limit processes no row whose index is the
\* limit or above, and without continue, filter and reduce it resolves with
\* min(limit, number of fetched rows) elements
C20_Limit ==
  \A i \in DoneFetches :
    ops[i].limit # NoLimit =>
      /\ ops[i].scanned <= ops[i].limit
      /\ (ops[i].q.continue = "none" /\ ops[i].q.filter = "none"
            /\ ops[i].q.reduce = "none") =>
           Len(ops[i].recs) = Min(ops[i].limit, Len(tables[ops[i].store].rows))

-----------------------------------------------------------------------------
(* remove, and the calls that name a store the catalog does not have *)

RemovePuts ==
  {PutInput("note", <<RA1, RB>>, TRUE), PutInput("log", <<RN, RA1>>, TRUE),
   PutInput(UnknownStore, <<RA1>>, FALSE)}

\* the arguments of remove: "" stands for no store argument
Removes ==
  {GetInput("note", S("a")), GetInput("note", S("id")), GetInput("log", N("1")),
   GetInput("note", Undef), GetInput("", Undef), GetInput(UnknownStore, Undef),
   GetInput(UnknownStore, S("a"))}

GetNope == TokenCall("getInTransaction", "k1", UnknownStore, <<>>, FALSE, S("a"))
PutNope == TokenCall("putInTransaction", "k1", UnknownStore, <<RA1>>, FALSE, Undef)

NextRemove ==
  \/ \E p \in RemovePuts : Put(p.s, p.objs, p.isArray)
  \/ \E r \in Removes : Remove(r.s, r.key)
  \/ Get(UnknownStore, S("a"))
  \/ Count(UnknownStore)
  \/ Clear(UnknownStore, Undef)
  \/ Fetch(Query(UnknownStore, "none", "none", "none", "none"), NoLimit)
  \/ RunInTransaction(<<PutNope, GetNope>>, {"k1"})
  \/ \E abort \in BOOLEAN : TxBegin(abort)
  \/ \E abort \in BOOLEAN : ExecOk(abort)
  \* a database may refuse a text of several statements: dropAll can fail
  \/ \E abort \in BOOLEAN : ExecFail({"dropAll"}, abort)
  \/ TxCommit

SpecRemove == InitTx /\ [][NextRemove]_vars

\* the calls that name a store absent from the catalog, the transaction
\* callback of the call, if it requested a transaction, having run
UnknownStoreOps ==
  {i \in 1..Len(ops) :
     /\ ops[i].store = UnknownStore
     /\ ops[i].tx # 0 => txs[ops[i].tx].state # "queued"}

\* C13 (as claimed): a call that names a store absent from the catalog is
\* rejected through the deferred it returns, and submits no statement
C13_UnknownStore ==
  \A i \in UnknownStoreOps :
    /\ ops[i].state = "rejected"
    /\ ops[i].api # "get" => ops[i].ret = "df"
    /\ ops[i].nstmt = 0
    /\ \A t \in 1..Len(txs) : StmtsOf(i, t) = {}

\* the remove calls whose transaction was the last to run
DoneRemoves ==
  {i \in 1..Len(ops) :
     ops[i].api \in {"deleteRow", "dropTable", "dropAll"} /\ LastTx(ops[i].tx)}

\* the rows of a table other than the row of the key
WithoutKey(s, rows, key) ==
  SelectRows(rows, {r \in RowSet(rows) : r.key = Affinity(KeyColumnType(s), key)}, 1)

\* C19 (as claimed): remove(store, id) deletes the row of the key id and no
\* other, remove(store) drops the table of the store and no other, remove()
\* drops the table of every store; the deferred resolves with true when the
\* statement succeeded and is rejected when it failed, and a row delete on
\* an existing table does not fail
C19_RemoveDispatch ==
  \A i \in DoneRemoves :
    LET t == ops[i].tx
        s == ops[i].store
        before == txs[t].snap
    IN /\ txs[t].stmts[1].res = "ok" => (ops[i].state = "resolved" /\ ops[i].kind = "true")
       /\ txs[t].stmts[1].res = "failed" => ops[i].state = "rejected"
       /\ (ops[i].api = "deleteRow" /\ before[s].exists) =>
            /\ ops[i].state = "resolved"
            /\ tables[s] = TableOf(WithoutKey(s, before[s].rows, ops[i].key))
            /\ \A o \in Stores \ {s} : tables[o] = before[o]
       /\ (ops[i].api = "dropTable" /\ ops[i].state = "resolved") =>
            /\ ~tables[s].exists
            /\ \A o \in Stores \ {s} : tables[o] = before[o]
       /\ (ops[i].api = "dropAll" /\ ops[i].state = "resolved") =>
            \A o \in Stores : ~tables[o].exists

-----------------------------------------------------------------------------
(* Claims about clear and count *)

\* C14 (as claimed): clear() with no argument returns a deferred and requests
\* one clear per declared store; when everything has run, no call having come
\* after it, the deferred is resolved and every store has zero rows
C14_ClearAll ==
  \A i \in 1..Len(ops) :
    ops[i].api = "clearAll" =>
      /\ ops[i].ret = "df"
      /\ (Quiet /\ i = Len(ops)) =>
           /\ ops[i].state = "resolved"
           /\ \A s \in Stores : tables[s].rows = <<>>

\* the clear calls whose transaction was the last to run
DoneClears ==
  {i \in 1..Len(ops) : ops[i].api = "clear" /\ LastTx(ops[i].tx)}

\* C15: clear(store, key) resolves with true and leaves of the store the rows
\* it had whose key is not key, in their order; clear(store) leaves the store
\* without rows; the rows of every other store are as they were
C15_ClearFrame ==
  \A i \in DoneClears :
    LET s == ops[i].store
        before == txs[ops[i].tx].snap
        kept == IF IsDef(ops[i].key)
                  THEN {r \in RowSet(before[s].rows) :
                          r.key # Affinity(KeyColumnType(s), ops[i].key)}
                  ELSE {}
    IN /\ ops[i].state = "resolved" /\ ops[i].kind = "true"
       /\ tables[s].exists
       /\ RowSet(tables[s].rows) = kept
       /\ Len(tables[s].rows) = Cardinality(kept)
       /\ \A o \in Stores \ {s} : tables[o] = before[o]

\* C15 witness: a clear of one key of the surrogate-key store that held two
\* rows has left the other row, the store with key path holding rows too
C15_Witness ==
  \E i \in DoneClears :
    /\ ops[i].store = "log" /\ IsDef(ops[i].key)
    /\ Len(txs[ops[i].tx].snap["log"].rows) = 2
    /\ Len(tables["log"].rows) = 1

\* the count calls whose transaction was the last to run
DoneCounts ==
  {i \in 1..Len(ops) : ops[i].api = "count" /\ LastTx(ops[i].tx)}

\* C16: count(store) resolves with the number of distinct primary keys the
\* store holds, which is the number of its rows
C16_Count ==
  \A i \in DoneCounts :
    LET rows == tables[ops[i].store].rows
    IN /\ ops[i].state = "resolved" /\ ops[i].kind = "count"
       /\ ops[i].count = Cardinality({rows[j].key : j \in 1..Len(rows)})
       /\ ops[i].count = Len(rows)

\* C16 witness: count resolved with 2 after a put of two records of
\* different keys into an empty store
C16_Witness ==
  \E i \in DoneCounts :
    /\ i > 1 /\ ops[i - 1].api = "put" /\ Len(ops[i - 1].objs) = 2
    /\ ops[i - 1].store = ops[i].store
    /\ txs[ops[i - 1].tx].snap[ops[i].store].rows = <<>>
    /\ ops[i].state = "resolved" /\ ops[i].count = 2

-----------------------------------------------------------------------------
(* migrate *)

NextMigrate ==
  \/ Construct
  \/ Put("note", <<RA1, RB>>, TRUE)
  \/ \E abort \in BOOLEAN : TxBegin(abort)
  \/ \E abort \in BOOLEAN : ExecOk(abort)
  \* a create statement can fail, and so can a statement on a missing table
  \/ \E abort \in BOOLEAN : ExecFail({"create"}, abort)
  \/ TxCommit

SpecMigrate == InitTx /\ [][NextMigrate]_vars

\* C17 (as claimed): the transaction callback of migrate submits one create
\* statement per declared store, in store order, to its one transaction; and
\* when the transaction has ended every one of them has been executed,
\* whether or not another failed, and the table of every statement that
\* succeeded exists
C17_MigrateContinues ==
  \A t \in Migrations :
    /\ txs[t].state # "queued" =>
         /\ Len(txs[t].stmts) = Len(StoreOrder)
         /\ \A j \in 1..Len(StoreOrder) :
              txs[t].stmts[j].kind = "create" /\ txs[t].stmts[j].store = StoreOrder[j]
    /\ LastTx(t) =>
         \A j \in 1..Len(txs[t].stmts) :
           /\ txs[t].stmts[j].res \in {"ok", "failed"}
           /\ txs[t].stmts[j].res = "ok" => tables[txs[t].stmts[j].store].exists

\* C18: a run of migrate leaves every table that existed before it, with all
\* its rows, as it was, and the index list of every store holds the payload
\* column exactly once, however often the create statements were prepared
C18_MigrateIdempotent ==
  /\ \A t \in Migrations :
       LastTx(t) => \A s \in Stores : txs[t].snap[s].exists => tables[s] = txs[t].snap[s]
  /\ \A s \in Stores :
       Cardinality({j \in 1..Len(schema[s]) : schema[s][j] = DEFAULT_BLOB_COLUMN}) = 1

\* C18 witness: a second construction has run migrate to the end over a
\* table that holds rows
C18_Witness ==
  \E t \in Migrations :
    /\ t > 1 /\ LastTx(t) /\ txs[t].state = "committed"
    /\ \A j \in 1..Len(txs[t].stmts) : txs[t].stmts[j].res = "ok"
    /\ Len(txs[t].snap["note"].rows) = 2
    /\ tables = txs[t].snap

-----------------------------------------------------------------------------
(* fetch with filter, map and reduce *)

RC == Rec(S("c"), S("y"), N("3"), S("c"))
RD == Rec(S("d"), S("x"), N("4"), Undef)

\* the queries: without and with a filter, and folding
Scans ==
  {FetchInput(Query("note", "none", "none", "none", "none"), NoLimit),
   FetchInput(Query("note", "none", "tagIsX", "none", "none"), NoLimit),
   FetchInput(Query("note", "none", "none", "none", "none"), 1),
   FetchInput(Query("note", "none", "tagIsX", "none", "none"), 1),
   FetchInput(Query("note", "idNotD", "none", "none", "none"), NoLimit),
   FetchInput(Query("note", "idNotD", "tagIsX", "none", "none"), NoLimit),
   FetchInput(Query("note", "tagIsX", "idNotD", "none", "none"), NoLimit),
   FetchInput(Query("note", "tagIsX", "none", "none", "none"), NoLimit),
   FetchInput(Query("note", "none", "tagIsX", "keyOnly", "lastId"), NoLimit),
   FetchInput(Query("note", "none", "tagIsX", "keyOnly", "lastTag"), 1),
   FetchInput(Query("note", "none", "never", "none", "firstTag"), NoLimit),
   FetchInput(Query("note", "idNotD", "none", "none", "firstTag"), NoLimit)}

NextScan ==
  \/ Put("note", <<RA1, RC, RD>>, TRUE)
  \/ \E f \in Scans : Fetch(f.q, f.limit)
  \/ \E abort \in BOOLEAN : TxBegin(abort)
  \/ \E abort \in BOOLEAN : ExecOk(abort)
  \/ \E abort \in BOOLEAN : ExecFail({"fetch"}, abort)
  \/ TxCommit

SpecScan == InitTx /\ [][NextScan]_vars

\* the resolved fetch calls, and the rows a fetch call was given
Fetched == {i \in 1..Len(ops) : ops[i].api = "fetch" /\ ops[i].state = "resolved"}
RowsOf(i) == txs[ops[i].tx].snap[ops[i].store].rows

\* the scan of fetch i run over the same rows without its filter
Unfiltered(i) ==
  Scan([ops[i].q EXCEPT !.filter = "none"], ops[i].limit, RowsOf(i), asserts, 0,
       [recs |-> <<>>, acc |-> Undef, scanned |-> 0, threw |-> FALSE])

Accepted(i) ==
  LET vals == [k \in 1..ops[i].scanned |->
                 [v |-> ParseRow(ops[i].store, RowsOf(i)[k], asserts).value, i |-> k - 1]]
  IN SelectRows(vals,
                {x \in RowSet(vals) :
                   ops[i].q.filter # "none" /\ ~ApplyPred(ops[i].q.filter, x.v)}, 1)

RECURSIVE FoldLeft(_, _, _, _)
\* reduce folded over the first k of vals after map, from undefined
FoldLeft(reduce, map, vals, k) ==
  IF k = 0 THEN Undef
  ELSE ApplyReduce(reduce, FoldLeft(reduce, map, vals, k - 1),
                   IF map = "none" THEN vals[k].v ELSE ApplyMap(map, vals[k].v),
                   vals[k].i)

\* C22: a fetch with a reduce function resolves with no list but with the
\* accumulator of reduce folded from undefined, in fetch order, over the
\* processed rows that pass the filter, after map, which is undefined when
\* there is no such row; a fetch without reduce resolves with a list
C22_FoldMode ==
  \A i \in Fetched :
    IF ops[i].q.reduce # "none"
      THEN /\ ops[i].kind = "acc" /\ ops[i].recs = <<>>
           /\ ops[i].acc = FoldLeft(ops[i].q.reduce, ops[i].q.map, Accepted(i),
                                    Len(Accepted(i)))
           /\ Accepted(i) = <<>> => ops[i].acc = Undef
      ELSE ops[i].kind = "recs" /\ ops[i].acc = Undef

\* C22 witness: a fold over three processed rows of which the filter
\* accepted two has resolved with the key of the last accepted row
C22_Witness ==
  \E i \in Fetched :
    /\ ops[i].q.reduce = "lastId" /\ ops[i].q.map = "keyOnly"
    /\ ops[i].scanned = 3 /\ Len(Accepted(i)) = 2
    /\ ops[i].kind = "acc" /\ ops[i].acc = S("d")

-----------------------------------------------------------------------------
(* Records that lack an Index field *)

\* C23 (as claimed): a Record with a key that lacks a declared Index field
\* comes back from put followed by get without that field
C23_AbsentIndex ==
  \A i \in 1..Len(ops) :
    (PutThenGet(i) /\ IsDef(KeyPath(ops[i].store)) /\ IsDef(ops[i].objs[1].id)) =>
      /\ ops[i + 1].state = "resolved" /\ ops[i + 1].kind = "rec"
      /\ \A name \in IndexNames(ops[i].store) :
           ~IsDef(ops[i].objs[1][name]) => ~IsDef(ops[i + 1].recs[1][name])

-----------------------------------------------------------------------------
(* Settlement of the deferreds *)

SettleRuns == {[script |-> <<PutA, GetA>>, toks |-> {"k1"}]}

NextSettle ==
  \/ Put("note", <<RA1, RB>>, TRUE)
  \/ Get("note", S("a"))
  \/ Fetch(QAll, NoLimit)
  \/ Count("note")
  \/ Clear("note", S("a"))
  \/ Remove("note", S("a"))
  \/ \E r \in SettleRuns : RunInTransaction(r.script, r.toks)
  \/ \E abort \in BOOLEAN : TxBegin(abort)
  \/ \E abort \in BOOLEAN : ExecOk(abort)
  \* any statement can fail for a reason of the database
  \/ \E abort \in BOOLEAN :
       ExecFail({"upsert", "selectKey", "fetch", "count", "deleteKey", "deleteRow"},
                abort)
  \/ TxCommit

SpecSettle == InitTx /\ [][NextSettle]_vars

\* what a deferred has been settled with
Settlement(op) ==
  [state |-> op.state, kind |-> op.kind, keys |-> op.keys, recs |-> op.recs,
   err |-> op.err, count |-> op.count, acc |-> op.acc]

C25_PutSettles ==
  \A i \in 1..Len(ops) :
    (ops[i].api = "put" /\ FinishedTx(ops[i].tx)) => HasFired(ops[i])

====
